---------------------------- MODULE Spec2Model ----------------------------
(***************************************************************************)
(* Model of scripts/pdf-processor.py: the title classifier, the content    *)
(* sanitizer, the markdown formatter and the chapter segmentation loop of  *)
(* PDFProcessor.                                                           *)
(*                                                                         *)
(* A Python str is a sequence of one-character strings.  The character     *)
(* classes are those of ASCII text: str.isupper/islower, \d, \s and        *)
(* [A-Z] are modelled over the letters, the digits, blank, tab and         *)
(* newline; every other character is an uncased symbol.                    *)
(***************************************************************************)
EXTENDS Integers, Sequences, FiniteSets

(***************************************************************************)
(* Characters                                                              *)
(***************************************************************************)
Upper ==
    << "A", "B", "C", "D", "E", "F", "G", "H", "I", "J", "K", "L", "M",
       "N", "O", "P", "Q", "R", "S", "T", "U", "V", "W", "X", "Y", "Z" >>

Lower ==
    << "a", "b", "c", "d", "e", "f", "g", "h", "i", "j", "k", "l", "m",
       "n", "o", "p", "q", "r", "s", "t", "u", "v", "w", "x", "y", "z" >>

UpperSet == { Upper[i] : i \in 1..26 }

LowerSet == { Lower[i] : i \in 1..26 }

LetterSet == UpperSet \cup LowerSet

DigitSet == { "0", "1", "2", "3", "4", "5", "6", "7", "8", "9" }

WsSet == { " ", "\t", "\n" }

NL == "\n"

ToLowerChar(c) ==
    IF c \in UpperSet THEN Lower[CHOOSE i \in 1..26 : Upper[i] = c] ELSE c

ToUpperChar(c) ==
    IF c \in LowerSet THEN Upper[CHOOSE i \in 1..26 : Lower[i] = c] ELSE c

Max(S) == CHOOSE x \in S : \A y \in S : y <= x

\* The first index from i on whose character is outside cls (inside it,
\* with member FALSE), or Len(s) + 1.
RECURSIVE Scan(_, _, _, _)
Scan(s, i, cls, member) ==
    IF i > Len(s) \/ (s[i] \in cls) # member THEN i
    ELSE Scan(s, i + 1, cls, member)

\* The last index up to i whose character is outside cls, or 0.
RECURSIVE ScanBack(_, _, _)
ScanBack(s, i, cls) ==
    IF i < 1 \/ s[i] \notin cls THEN i ELSE ScanBack(s, i - 1, cls)

(***************************************************************************)
(* str methods                                                             *)
(***************************************************************************)
\* str.strip(): drop the leading and the trailing whitespace.
Strip(s) == SubSeq(s, Scan(s, 1, WsSet, TRUE), ScanBack(s, Len(s), WsSet))

\* str.split(sep) for a one-character separator: always at least one piece.
RECURSIVE Split(_, _)
Split(s, sep) ==
    LET k == Scan(s, 1, { sep }, FALSE)
    IN  IF k > Len(s) THEN << s >>
        ELSE << SubSeq(s, 1, k - 1) >> \o Split(SubSeq(s, k + 1, Len(s)), sep)

\* str.split() without a separator: the maximal runs of non-whitespace.
RECURSIVE SplitWs(_)
SplitWs(s) ==
    LET t == Strip(s)
        k == Scan(t, 1, WsSet, FALSE)
    IN  IF t = << >> THEN << >>
        ELSE IF k > Len(t) THEN << t >>
        ELSE << SubSeq(t, 1, k - 1) >> \o SplitWs(SubSeq(t, k, Len(t)))

\* sep.join(parts) for a one-character separator.
RECURSIVE Join(_, _)
Join(parts, sep) ==
    IF parts = << >> THEN << >>
    ELSE IF Len(parts) = 1 THEN parts[1]
    ELSE parts[1] \o << sep >> \o Join(Tail(parts), sep)

\* str.isupper(): at least one cased character and no lowercase one.
isupper(s) ==
    /\ \E i \in 1..Len(s) : s[i] \in UpperSet
    /\ \A i \in 1..Len(s) : s[i] \notin LowerSet

\* str.istitle(): uppercase only after an uncased character, lowercase only
\* after a cased one, and at least one cased character.
istitle(s) ==
    /\ \E i \in 1..Len(s) : s[i] \in LetterSet
    /\ \A i \in 1..Len(s) :
          /\ s[i] \in UpperSet => (i = 1 \/ s[i - 1] \notin LetterSet)
          /\ s[i] \in LowerSet => (i > 1 /\ s[i - 1] \in LetterSet)

\* str.title(): a cased character is uppercased after an uncased one and
\* lowercased after a cased one.
title(s) ==
    [ i \in 1..Len(s) |->
        IF i > 1 /\ s[i - 1] \in LetterSet
        THEN ToLowerChar(s[i]) ELSE ToUpperChar(s[i]) ]

(***************************************************************************)
(* Regular expressions                                                     *)
(***************************************************************************)
\* The index after the longest run of characters of class cls starting at i.
RunEnd(s, i, cls) == Scan(s, i, cls, TRUE)

\* A literal keyword at the start of s, compared under re.IGNORECASE.
MatchKeywordIC(s, kw) ==
    /\ Len(s) >= Len(kw)
    /\ \A i \in 1..Len(kw) : ToLowerChar(s[i]) = ToLowerChar(kw[i])

\* re.match(kw\s+[body]+[:\-\s], s, re.IGNORECASE): the shape of patterns
\* 1 and 5.  The classes of consecutive pieces are disjoint, so the greedy
\* match is the only one.
MatchKeywordRun(s, kw, body) ==
    /\ MatchKeywordIC(s, kw)
    /\ LET a == Len(kw) + 1
           b == RunEnd(s, a, WsSet)
           c == RunEnd(s, b, body)
       IN  /\ b > a
           /\ c > b
           /\ c <= Len(s)
           /\ s[c] \in ({ ":", "-" } \cup WsSet)

\* re.match(\d+ sep \s+ [letters], s): the shape of patterns 2 and 4 and of
\* the last heuristic; sep is << >> or << "." >>.
MatchNumbered(s, sep, letters) ==
    LET a == RunEnd(s, 1, DigitSet)
        b == a + Len(sep)
        c == RunEnd(s, b, WsSet)
    IN  /\ a > 1
        /\ b - 1 <= Len(s)
        /\ \A k \in 1..Len(sep) : s[a + k - 1] = sep[k]
        /\ c > b
        /\ c <= Len(s)
        /\ s[c] \in letters

\* re.match(^[A-Z][A-Z\s]{10,}$, s): a letter of class letters followed by
\* at least ten letters or whitespace characters, up to the end.
MatchAllCaps(s, letters) ==
    /\ Len(s) >= 11
    /\ s[1] \in letters
    /\ \A i \in 2..Len(s) : s[i] \in (letters \cup WsSet)

\* re.match(^\d+$, s)
MatchDigitsOnly(s) ==
    /\ Len(s) >= 1
    /\ \A i \in 1..Len(s) : s[i] \in DigitSet

\* re.match(^\d+\.\d+, s)
MatchSectionNumber(s) ==
    LET a == RunEnd(s, 1, DigitSet)
    IN  /\ a > 1
        /\ a + 1 <= Len(s)
        /\ s[a] = "."
        /\ s[a + 1] \in DigitSet

\* re.sub([^a-zA-Z0-9\s], '', s)
StripSymbols(s) ==
    SelectSeq(s, LAMBDA c : c \in (LetterSet \cup DigitSet \cup WsSet))

\* re.sub(\n\s*\n\s*\n, '\n\n', s).  Both \s* are greedy, so a match that
\* starts at a newline runs to the last newline of the whitespace run that
\* follows it, and needs three newlines in that run.
RECURSIVE CollapseFrom(_, _)
CollapseFrom(s, i) ==
    IF i > Len(s) THEN << >>
    ELSE LET e == RunEnd(s, i, WsSet)
             nls == { j \in i..(e - 1) : s[j] = NL }
         IN  IF s[i] = NL /\ Cardinality(nls) >= 3
             THEN << NL, NL >> \o CollapseFrom(s, Max(nls) + 1)
             ELSE << s[i] >> \o CollapseFrom(s, i + 1)

CollapseBlankRuns(s) == CollapseFrom(s, 1)

(***************************************************************************)
(* PDFProcessor._format_as_markdown                                        *)
(***************************************************************************)
FormatLine(raw) ==
    LET line == Strip(raw)
    IN  IF line = << >> THEN << >>
        ELSE IF /\ Len(line) < 80
                /\ (isupper(line) \/ istitle(line) \/ MatchSectionNumber(line))
        THEN IF isupper(line)
             THEN << "#", "#", " " >> \o title(line)
             ELSE << "#", "#", "#", " " >> \o line
        ELSE line

_format_as_markdown(content) ==
    LET lines == Split(content, NL)
    IN  Join([ i \in 1..Len(lines) |-> FormatLine(lines[i]) ], NL)

(***************************************************************************)
(* PDFProcessor._clean_content                                             *)
(***************************************************************************)
\* The three filters of the cleaning loop, on a stripped line.
DropLine(line) ==
    \/ MatchDigitsOnly(line)
    \/ Len(line) < 3
    \/ 2 * Len(StripSymbols(line)) < Len(line)

_clean_content(content) ==
    LET lines == Split(CollapseBlankRuns(content), NL)
        stripped == [ i \in 1..Len(lines) |-> Strip(lines[i]) ]
        cleaned_lines == SelectSeq(stripped, LAMBDA l : ~DropLine(l))
    IN  Strip(_format_as_markdown(Join(cleaned_lines, NL)))

(***************************************************************************)
(* PDFProcessor._is_chapter_title                                          *)
(***************************************************************************)
KwChapter == << "C", "h", "a", "p", "t", "e", "r" >>

KwPart == << "P", "a", "r", "t" >>

\* chapter_patterns, each matched with re.IGNORECASE: [A-Z] and [IVX] then
\* accept both cases.
Pattern1(line) == MatchKeywordRun(line, KwChapter, DigitSet)

Pattern2(line) == MatchNumbered(line, << "." >>, LetterSet)

Pattern3(line) == MatchAllCaps(line, LetterSet)

Pattern4(line) == MatchNumbered(line, << >>, LetterSet)

Pattern5(line) == MatchKeywordRun(line, KwPart, { "I", "V", "X", "i", "v", "x" })

_is_chapter_title(line) ==
    IF Len(line) < 5 \/ Len(line) > 100 THEN FALSE
    ELSE IF \/ Pattern1(line)
            \/ Pattern2(line)
            \/ Pattern3(line)
            \/ Pattern4(line)
            \/ Pattern5(line)
    THEN TRUE
    ELSE IF isupper(line) /\ 10 <= Len(line) /\ Len(line) <= 50 THEN TRUE
    ELSE IF MatchNumbered(line, << >>, UpperSet) THEN TRUE
    ELSE FALSE

(***************************************************************************)
(* Sample lines and page texts                                             *)
(***************************************************************************)
\* "Chapter 1: Intro"
LChapter1 ==
    << "C", "h", "a", "p", "t", "e", "r", " ", "1", ":", " ", "I", "n",
       "t", "r", "o" >>

\* "chapter 2 next"
LChapter2 ==
    << "c", "h", "a", "p", "t", "e", "r", " ", "2", " ", "n", "e", "x",
       "t" >>

\* "INTRODUCTION"
LAllCaps ==
    << "I", "N", "T", "R", "O", "D", "U", "C", "T", "I", "O", "N" >>

\* "hello world again"
LLowerWords ==
    << "h", "e", "l", "l", "o", " ", "w", "o", "r", "l", "d", " ", "a",
       "g", "a", "i", "n" >>

\* "Some text."
LText ==
    << "S", "o", "m", "e", " ", "t", "e", "x", "t", "." >>

\* "More text."
LMore ==
    << "M", "o", "r", "e", " ", "t", "e", "x", "t", "." >>

\* "Hello Bob"
LHeading ==
    << "H", "e", "l", "l", "o", " ", "B", "o", "b" >>

\* "  HELLO  "
LShout ==
    << " ", " ", "H", "E", "L", "L", "O", " ", " " >>

\* "123"
LPageNo ==
    << "1", "2", "3" >>

\* "#-#a"
LNoise ==
    << "#", "-", "#", "a" >>

\* The page texts the extractor may hand over: an empty page, a
\* whitespace-only page, pages without a title line, pages that open with
\* a title, and a page with front matter and two titles.
PageTexts ==
    { << >>,
      << " ", NL, " " >>,
      Join(<< LText, LPageNo, LMore >>, NL),
      Join(<< LShout, LNoise >>, NL),
      Join(<< LChapter1, LText, LPageNo, LMore >>, NL),
      Join(<< LChapter2, LHeading, << >>, LMore >>, NL),
      Join(<< LText, LAllCaps, LShout, LLowerWords, LMore >>, NL) }

\* The most pages of one document.
MaxPages == 2

\* The largest page index.
MaxIndex == 2

\* pages_text: (page index, text) pairs with non-decreasing indices.
PageSeqs ==
    UNION { { p \in [1..n -> (0..MaxIndex) \X PageTexts] :
                \A i \in 1..(n - 1) : p[i][1] <= p[i + 1][1] } :
            n \in 0..MaxPages }

(***************************************************************************)
(* State                                                                   *)
(***************************************************************************)
VARIABLES
    pages_text,       \* the argument of _detect_chapters
    chapters,         \* the PDFChapter records appended so far
    current_chapter,  \* << >> for None, else << the accumulator dict >>
    page_i,           \* position of the outer loop in pages_text
    line_i,           \* position of the inner loop in lines
    pc,               \* "loop", "final", "fallback", "done"
    raised,           \* TRUE once an exception has left the function
    arg,              \* the str handed to the classifier and the sanitizer
    is_title,         \* the result of _is_chapter_title
    cleaned,          \* the result of _clean_content(arg)
    recleaned,        \* the result of _clean_content(cleaned)
    tpc               \* "start", "classified", "cleaned", "recleaned"

segvars == << pages_text, chapters, current_chapter, page_i, line_i, pc, raised >>

textvars == << arg, is_title, cleaned, recleaned, tpc >>

vars == << segvars, textvars >>

PDFChapter(t, c, ps, pe, wc) ==
    [ title |-> t, content |-> c, page_start |-> ps, page_end |-> pe,
      word_count |-> wc ]

\* The loop variables of lines 81-85.
page_num == pages_text[page_i][1]

lines == Split(pages_text[page_i][2], NL)

line == Strip(lines[line_i])

InLoop == pc = "loop" /\ page_i <= Len(pages_text)

\* The next iteration: the next line of the page, else the first line of
\* the next page (str.split always yields at least one line).
NextLine ==
    IF line_i < Len(lines)
    THEN page_i' = page_i /\ line_i' = line_i + 1
    ELSE page_i' = page_i + 1 /\ line_i' = 1

\* Lines 93-103 and 119-129: close the accumulator with the given page_end.
Finalize(acc, page_end) ==
    LET content == _clean_content(acc.content)
    IN  PDFChapter(acc.title, content, acc.page_start, page_end,
                   Len(SplitWs(content)))

\* The line put in front of the buffer instead of behind it.
AppendLine_prepend(content, l) == l \o << NL >> \o content

\* Line 115: content += line + '\n'
AppendLine(content, l) == content \o l \o << NL >>

Init ==
    /\ pages_text \in PageSeqs
    /\ chapters = << >>
    /\ current_chapter = << >>
    /\ page_i = 1
    /\ line_i = 1
    /\ pc = "loop"
    /\ raised = FALSE
    /\ arg = << >>
    /\ is_title = FALSE
    /\ cleaned = << >>
    /\ recleaned = << >>
    /\ tpc = "idle"

\* Lines 86-87: a blank line is skipped.
BlankLine ==
    /\ InLoop
    /\ line = << >>
    /\ NextLine
    /\ UNCHANGED << pages_text, chapters, current_chapter, pc, raised >>
    /\ UNCHANGED textvars

\* Lines 90-111: a title line closes the chapter in progress, if any, with
\* page_end = page_num - 1 and starts a new one.
TitleLine ==
    /\ InLoop
    /\ line # << >>
    /\ _is_chapter_title(line)
    /\ chapters' =
          IF current_chapter # << >>
          THEN Append(chapters, Finalize(current_chapter[1], page_num - 1))
          ELSE chapters
    /\ current_chapter' =
          << [ title |-> line, content |-> << >>,
               page_start |-> page_num, page_end |-> page_num ] >>
    /\ NextLine
    /\ UNCHANGED << pages_text, pc, raised >>
    /\ UNCHANGED textvars

\* Lines 113-115: another line goes to the chapter in progress.
ContentLine ==
    /\ InLoop
    /\ line # << >>
    /\ ~_is_chapter_title(line)
    /\ current_chapter # << >>
    /\ current_chapter' =
          << [ current_chapter[1] EXCEPT
                 !.content = AppendLine(current_chapter[1].content, line) ] >>
    /\ NextLine
    /\ UNCHANGED << pages_text, chapters, pc, raised >>
    /\ UNCHANGED textvars

\* Lines 90 and 113 both false: a line before the first title is dropped.
FrontMatterLine ==
    /\ InLoop
    /\ line # << >>
    /\ ~_is_chapter_title(line)
    /\ current_chapter = << >>
    /\ NextLine
    /\ UNCHANGED << pages_text, chapters, current_chapter, pc, raised >>
    /\ UNCHANGED textvars

\* Line 81: the page loop is exhausted.
LoopExit ==
    /\ pc = "loop"
    /\ page_i > Len(pages_text)
    /\ pc' = "final"
    /\ UNCHANGED << pages_text, chapters, current_chapter, page_i, line_i,
                    raised >>
    /\ UNCHANGED textvars

\* The position of the last page instead of its index.
LastPageIndex_position == Len(pages_text) - 1

\* Line 119: pages_text[-1][0], the index of the last page.
LastPageIndex == pages_text[Len(pages_text)][1]

\* Lines 118-129: the last chapter ends on the last page.  pages_text[-1]
\* raises IndexError on an empty list.
FinalFlush ==
    /\ pc = "final"
    /\ IF current_chapter = << >>
       THEN /\ pc' = "fallback"
            /\ UNCHANGED << chapters, current_chapter, raised >>
       ELSE IF pages_text = << >>
       THEN /\ raised' = TRUE
            /\ pc' = "done"
            /\ UNCHANGED << chapters, current_chapter >>
       ELSE LET last == Finalize(current_chapter[1], LastPageIndex)
            IN  /\ chapters' = Append(chapters, last)
                /\ current_chapter' =
                      << [ current_chapter[1] EXCEPT
                             !.page_end = last.page_end,
                             !.content = last.content ] >>
                /\ pc' = "fallback"
                /\ UNCHANGED raised
    /\ UNCHANGED << pages_text, page_i, line_i >>
    /\ UNCHANGED textvars

\* "Complete Document"
TitleComplete ==
    << "C", "o", "m", "p", "l", "e", "t", "e", " ", "D", "o", "c", "u",
       "m", "e", "n", "t" >>

\* The fallback whenever there is a page, chapters or not.
NeedsFallback_anyPages == pages_text # << >>

\* The fallback whenever there is no chapter, pages or not.
NeedsFallback_noChapters == chapters = << >>

\* Line 132: not chapters and pages_text
NeedsFallback == chapters = << >> /\ pages_text # << >>

\* Lines 132-142: no chapter at all and at least one page: the whole
\* document is one chapter, counted before it is cleaned.
Fallback ==
    /\ pc = "fallback"
    /\ chapters' =
          IF NeedsFallback
          THEN LET full_content ==
                     Join([ i \in 1..Len(pages_text) |-> pages_text[i][2] ], NL)
               IN  Append(chapters,
                          PDFChapter(TitleComplete,
                                     _clean_content(full_content),
                                     0,
                                     Len(pages_text) - 1,
                                     Len(SplitWs(full_content))))
          ELSE chapters
    /\ pc' = "done"
    /\ UNCHANGED << pages_text, current_chapter, page_i, line_i, raised >>
    /\ UNCHANGED textvars

Next ==
    \/ BlankLine
    \/ TitleLine
    \/ ContentLine
    \/ FrontMatterLine
    \/ LoopExit
    \/ FinalFlush
    \/ Fallback

Spec == Init /\ [][Next]_vars

(***************************************************************************)
(* The classifier and the sanitizer on their own                           *)
(***************************************************************************)
\* "world again"
TokWords ==
    << "w", "o", "r", "l", "d", " ", "a", "g", "a", "i", "n" >>

\* The pieces the input strings are built from.
Tokens ==
    { KwChapter, << "p", "a", "r", "t" >>, << " " >>, << "1" >>, << ":" >>,
      << "." >>, << "I", "V" >>, << "H", "e", "l", "l", "o" >>,
      << "H", "E", "L", "L", "O" >>, TokWords, << NL >>, << "#" >> }

\* The most tokens of one input string.
MaxTokens == 3

RECURSIVE Concat(_)
Concat(parts) ==
    IF parts = << >> THEN << >> ELSE Head(parts) \o Concat(Tail(parts))

TextInputs ==
    UNION { { Concat(p) : p \in [1..n -> Tokens] } : n \in 0..MaxTokens }

InitText ==
    /\ pages_text = << >>
    /\ chapters = << >>
    /\ current_chapter = << >>
    /\ page_i = 1
    /\ line_i = 1
    /\ pc = "idle"
    /\ raised = FALSE
    /\ arg \in TextInputs
    /\ is_title = FALSE
    /\ cleaned = << >>
    /\ recleaned = << >>
    /\ tpc = "start"

\* Lines 85-90: the classifier is handed the stripped line.
Classify ==
    /\ tpc = "start"
    /\ is_title' = _is_chapter_title(Strip(arg))
    /\ tpc' = "classified"
    /\ UNCHANGED << arg, cleaned, recleaned >>
    /\ UNCHANGED segvars

\* Lines 94, 120 and 136: the text is cleaned.
CleanOnce ==
    /\ tpc = "start"
    /\ cleaned' = _clean_content(arg)
    /\ tpc' = "cleaned"
    /\ UNCHANGED << arg, is_title, recleaned >>
    /\ UNCHANGED segvars

\* The cleaned text is cleaned again.
CleanTwice ==
    /\ tpc = "cleaned"
    /\ recleaned' = _clean_content(cleaned)
    /\ tpc' = "recleaned"
    /\ UNCHANGED << arg, is_title, cleaned >>
    /\ UNCHANGED segvars

NextText ==
    \/ Classify
    \/ CleanOnce
    \/ CleanTwice

SpecText == InitText /\ [][NextText]_vars

(***************************************************************************)
(* Vocabulary of the properties                                            *)
(***************************************************************************)
Done == pc = "done"

FirstIndex == pages_text[1][1]

LastIndex == pages_text[Len(pages_text)][1]

\* The non-blank stripped lines of one page, each with its page index.
PageLines(p) ==
    LET ls == Split(p[2], NL)
        recs == [ i \in 1..Len(ls) |-> [ page |-> p[1], text |-> Strip(ls[i]) ] ]
    IN  SelectSeq(recs, LAMBDA r : r.text # << >>)

\* The non-blank lines of the whole input in page-then-line order.
AllLines == Concat([ i \in 1..Len(pages_text) |-> PageLines(pages_text[i]) ])

\* The positions, in order, of the lines of all that the classifier accepts.
TitlePositions(all) ==
    SelectSeq([ i \in 1..Len(all) |-> i ],
              LAMBDA i : _is_chapter_title(all[i].text))

TitleLines == TitlePositions(AllLines)

\* The lines between the k-th title and the next one (or the end), each
\* with its newline; tp is TitlePositions(all).
BodyLines(all, tp, k) ==
    LET from == tp[k]
        to == IF k < Len(tp) THEN tp[k + 1] ELSE Len(all) + 1
    IN  [ i \in 1..(to - from - 1) |-> all[from + i].text \o << NL >> ]

\* page_start(1), page_end(1), page_start(2), page_end(2), ...
RangeSeq ==
    [ i \in 1..(2 * Len(chapters)) |->
        IF i % 2 = 1 THEN chapters[(i + 1) \div 2].page_start
        ELSE chapters[i \div 2].page_end ]

Covered(p) ==
    \E i \in 1..Len(chapters) :
        chapters[i].page_start <= p /\ p <= chapters[i].page_end

\* Each chapter after the first starts right after the previous one ends,
\* and the last one ends on the last page.
Adjacent ==
    /\ \A i \in 2..Len(chapters) :
          chapters[i].page_start = chapters[i - 1].page_end + 1
    /\ chapters[Len(chapters)].page_end = LastIndex

(***************************************************************************)
(* Properties                                                              *)
(***************************************************************************)
\* C1: every returned chapter has page_start <= page_end, also one that is
\* closed by a second title line on the page on which it started.
C1_StartBeforeEnd ==
    Done => \A i \in 1..Len(chapters) :
                chapters[i].page_start <= chapters[i].page_end

\* C2: a non-empty input without a title line yields exactly one chapter,
\* "Complete Document", from the first page's index to the last page's.
C2_FallbackSpansInput ==
    (Done /\ pages_text # << >> /\ TitleLines = << >>) =>
        /\ Len(chapters) = 1
        /\ chapters[1].title = TitleComplete
        /\ chapters[1].page_start = FirstIndex
        /\ chapters[1].page_end = LastIndex

\* C3: the page ranges read in emission order never decrease and stay
\* between the first and the last input page index.
C3_RangesMonotoneInBounds ==
    (Done /\ pages_text # << >>) =>
        /\ \A i \in 1..(Len(RangeSeq) - 1) : RangeSeq[i] <= RangeSeq[i + 1]
        /\ \A i \in 1..Len(RangeSeq) :
              FirstIndex <= RangeSeq[i] /\ RangeSeq[i] <= LastIndex

\* C4 as stated: with a title line detected the chapters cover every page
\* index from the first to the last input page, each chapter starts right
\* after the previous one, and the last one ends on the last page.
C4_CoversWholeInput ==
    (Done /\ TitleLines # << >>) =>
        /\ chapters # << >>
        /\ \A p \in FirstIndex..LastIndex : Covered(p)
        /\ Adjacent

\* C4 amended: with a title line detected the chapters cover every page
\* index from the page of the first title line to the last input page,
\* each chapter starts right after the previous one, and the last one ends
\* on the last page; the pages before the first title are in no chapter.
C4_CoversFromFirstTitle ==
    Done =>
        LET all == AllLines
            tp == TitlePositions(all)
        IN  tp # << >> =>
              /\ chapters # << >>
              /\ chapters[1].page_start = all[tp[1]].page
              /\ \A p \in chapters[1].page_start..LastIndex : Covered(p)
              /\ \A p \in FirstIndex..(chapters[1].page_start - 1) : ~Covered(p)
              /\ Adjacent

\* C4: front-matter pages precede the first of several chapters.
C4_Witness ==
    /\ Done
    /\ Len(TitleLines) >= 2
    /\ Len(chapters) >= 2
    /\ FirstIndex < chapters[1].page_start

\* C5: every returned chapter's word_count is the number of
\* whitespace-delimited tokens of its content.
C5_WordCountOfContent ==
    Done => \A i \in 1..Len(chapters) :
                chapters[i].word_count = Len(SplitWs(chapters[i].content))

\* C6: k >= 1 title lines yield exactly k chapters, the i-th titled by the
\* i-th title line, and no "Complete Document" chapter.
C6_OneChapterPerTitle ==
    Done =>
        LET all == AllLines
            tp == TitlePositions(all)
        IN  tp # << >> =>
              /\ Len(chapters) = Len(tp)
              /\ \A i \in 1..Len(chapters) :
                    /\ i <= Len(tp)
                    /\ chapters[i].title = all[tp[i]].text
                    /\ chapters[i].title # TitleComplete

\* C6: three or more title lines, two of them on one page.
C6_Witness ==
    /\ Done
    /\ LET all == AllLines
           tp == TitlePositions(all)
       IN  /\ Len(tp) >= 3
           /\ Len(chapters) = Len(tp)
           /\ all[tp[1]].page = all[tp[2]].page

\* C7: a line of length 5..100 with the letters-and-spaces shape of rule 3
\* that is not fully uppercase and matches no other rule is not a title.
C7_AllCapsRuleCaseSensitive ==
    LET l == Strip(arg)
    IN  ( /\ tpc = "classified"
          /\ 5 <= Len(l) /\ Len(l) <= 100
          /\ MatchAllCaps(l, LetterSet)
          /\ ~isupper(l)
          /\ ~Pattern1(l) /\ ~Pattern2(l) /\ ~Pattern4(l) /\ ~Pattern5(l) )
        => is_title = FALSE

\* The inputs C8 speaks of: no digit-only line, no line under 3 characters
\* after trimming, no symbol-dominated line.
CleanInput(s) ==
    LET ls == Split(s, NL)
    IN  \A i \in 1..Len(ls) : ~DropLine(Strip(ls[i]))

\* C8: cleaning twice gives what cleaning once gives, for a string without
\* a digit-only, a short or a symbol-dominated line.
C8_CleanIdempotent ==
    (tpc = "recleaned" /\ CleanInput(arg)) => recleaned = cleaned

\* C9: an empty page sequence returns no chapter and raises nothing; the
\* final flush reads the last page only with an accumulator, which needs a
\* page.
C9_EmptyInputEmptyOutput ==
    /\ (Done /\ pages_text = << >>) => (chapters = << >> /\ ~raised)
    /\ current_chapter # << >> => pages_text # << >>
    /\ ~raised

\* C9: the call on an empty page sequence has returned.
C9_Witness == Done /\ pages_text = << >> /\ chapters = << >> /\ ~raised

\* C10: a non-title line read with no accumulator changes nothing; one read
\* with an accumulator is appended to its buffer only; no step changes a
\* chapter already returned; and with a title detected the i-th chapter's
\* content is the cleaned text of the lines between the i-th title line
\* and the next, in input order, so front matter is in none of them.
C10_SingleAccumulator ==
    [][ /\ Len(chapters') >= Len(chapters)
        /\ \A i \in 1..Len(chapters) : chapters'[i] = chapters[i]
        /\ InLoop =>
              LET l == line
              IN  (l # << >> /\ ~_is_chapter_title(l)) =>
                    /\ chapters' = chapters
                    /\ IF current_chapter = << >>
                       THEN current_chapter' = << >>
                       ELSE current_chapter' =
                              << [ current_chapter[1] EXCEPT
                                     !.content = @ \o l \o << NL >> ] >>
        /\ pc' = "done" =>
              LET all == AllLines
                  tp == TitlePositions(all)
              IN  tp # << >> =>
                    /\ Len(chapters') = Len(tp)
                    /\ \A i \in 1..Len(tp) :
                          chapters'[i].content =
                              _clean_content(Concat(BodyLines(all, tp, i)))
      ]_vars

\* C10: front matter precedes the first title and a chapter with at least
\* two lines of content has been returned after another one.
C10_Witness ==
    /\ Done
    /\ LET all == AllLines
           tp == TitlePositions(all)
       IN  /\ Len(tp) >= 2
           /\ tp[1] > 1
           /\ \E i \in 2..Len(tp) :
                 /\ Len(BodyLines(all, tp, i)) >= 2
                 /\ chapters[i].content # << >>

=============================================================================
